---- MODULE Spec2Model ----
(***************************************************************************)
(* Model of digisafe_c/main.cpp: a keypad safe with one admin code and     *)
(* four compartment codes kept in EEPROM as linked chains of 4-byte cells, *)
(* driven by an eight-state machine.                                       *)
(***************************************************************************)
EXTENDS Integers, Sequences, FiniteSets, TLC

\* ---------------------------------------------------------------- constants
MINLEN == 5
MAXLEN == 50
LOCKTIME == 10

\* Number of 4-byte heap cells of the modelled EEPROM (the heap starts at 24).
HeapCells == 12

HeaderSize == 24
MemSize == HeaderSize + 4 * HeapCells
Occupied == 204      \* 0xCC

\* enum states
States == {"initial", "userLocked", "adminLocked", "adminUnlocked",
           "safeSelect", "userUnlocked", "editCode", "lockout"}

\* Codes the operator types: digit keys are accepted while the scratch code
\* stays a prefix of one of these.
TypedCodes == {<<1, 2, 3, 4, 5>>, <<1, 2, 9, 4, 5>>, <<1, 2, 3, 4, 5, 0>>}

\* Key codes the keypad delivers (getKey): -1 is "no key".
NoKey == -1

\* digits already typed when the long-entry specification starts
EntryFrom == 48
Keys == {NoKey, 0, 1, 2, 3, 4, 5, 9, 10, 11, 12, 15}

\* ---------------------------------------------------------------- EEPROM
\* The EEPROM is the sequence of its bytes: the byte at address a is m[a + 1].
EEPROM_read(m, uiAddress) == m[uiAddress + 1]

EEPROM_write(m, uiAddress, ucData) == [m EXCEPT ![uiAddress + 1] = ucData]

\* an EEPROM that was never written reads 0xFF everywhere
Blank == [i \in 1 .. MemSize |-> 255]

\* (int8_t) of a byte
int8(b) == IF b > 127 THEN b - 256 ELSE b

\* the 16-bit pointer stored as two bytes, high byte first
PtrHi(p) == (p \div 256) % 256
PtrLo(p) == p % 256
PtrAt(m, a) == EEPROM_read(m, a + 1) + 256 * EEPROM_read(m, a)

\* header record of slot pos (0 = admin, 1..4 = compartments)
SlotAddr(pos) == (pos * 4) + 4

CellAddrs == {HeaderSize + 4 * c : c \in 0 .. (HeapCells - 1)}
FreeCells(m) == {a \in CellAddrs : EEPROM_read(m, a) # Occupied}

\* ---------------------------------------------------------------- class lock
\* A lock object: code[0 .. code_length-1], code_length, active.
NewLock == [code |-> << >>, code_length |-> 0, active |-> 0]

\* mutant: the status is set and the digits are kept
lock_set_active_keep(lk, num) == [lk EXCEPT !.active = num]

lock_set_active(lk, num) ==
    IF num # 1
    THEN [lk EXCEPT !.active = num, !.code_length = 0, !.code = << >>]
    ELSE [lk EXCEPT !.active = num]

set_active_halts(num) == ~(num >= 0 /\ num <= 2)

get_code_digit(lk, num) == lk.code[num + 1]

get_code_digit_halts(lk, num) == ~(num < lk.code_length)

\* mutant: only the lengths are compared
lock_compare_code_len(lk, comp) ==
    [ret |-> IF lk.code_length = comp.code_length THEN 1 ELSE 0,
     comp |-> lock_set_active(comp, 0)]

\* mutant: the digits of the comparand are compared, its length is not
lock_compare_code_prefix(lk, comp) ==
    LET same == /\ lk.code_length >= comp.code_length
                /\ \A i \in 0 .. (comp.code_length - 1) :
                       lk.code[i + 1] = get_code_digit(comp, i)
    IN [ret |-> IF same THEN 1 ELSE 0, comp |-> lock_set_active(comp, 0)]

\* lock::compare_code: [ret, comp]; the comparand is always cleared
lock_compare_code(lk, comp) ==
    LET same == /\ lk.code_length = comp.code_length
                /\ \A i \in 0 .. (lk.code_length - 1) :
                       lk.code[i + 1] = get_code_digit(comp, i)
    IN [ret |-> IF same THEN 1 ELSE 0, comp |-> lock_set_active(comp, 0)]

\* mutant: the scan takes the cell it starts at
find_free_here(m, search) == search

\* the while(find) scan: first cell at or after search whose marker is not 0xCC
RECURSIVE find_free(_, _)
find_free(m, search) ==
    IF EEPROM_read(m, search) = Occupied
    THEN find_free(m, search + 4)
    ELSE search

\* mutant: the claimed cell does not get the 0xCC marker
claim_cell_nomark(m, point, search, digit) ==
    LET m1 == EEPROM_write(m, point, PtrHi(search))
        m2 == EEPROM_write(m1, point + 1, PtrLo(search))
    IN EEPROM_write(m2, search + 1, digit)

\* one digit of lock::update_code: claim the cell, link it from point
claim_cell(m, point, search, digit) ==
    LET m1 == EEPROM_write(m, point, PtrHi(search))
        m2 == EEPROM_write(m1, point + 1, PtrLo(search))
        m3 == EEPROM_write(m2, search, Occupied)
    IN EEPROM_write(m3, search + 1, digit)

\* mutant: every cell receives code[0], the digit of the first block
RECURSIVE store_digits_first(_, _, _, _, _)
store_digits_first(m, point, search, new_code, i) ==
    IF i >= new_code.code_length
    THEN m
    ELSE LET s == find_free(m, search)
             m4 == claim_cell(m, point, s, get_code_digit(new_code, 0))
         IN store_digits_first(m4, s + 2, s + 4, new_code, i + 1)

\* mutant: the scan resumes two cells after the cell just claimed
RECURSIVE store_digits_skip(_, _, _, _, _)
store_digits_skip(m, point, search, new_code, i) ==
    IF i >= new_code.code_length
    THEN m
    ELSE LET s == find_free(m, search)
             m4 == claim_cell(m, point, s, get_code_digit(new_code, i))
         IN store_digits_skip(m4, s + 2, s + 8, new_code, i + 1)

RECURSIVE store_digits(_, _, _, _, _)
store_digits(m, point, search, new_code, i) ==
    IF i >= new_code.code_length
    THEN m
    ELSE LET s == find_free(m, search)
             m4 == claim_cell(m, point, s, get_code_digit(new_code, i))
         IN store_digits(m4, s + 2, s + 4, new_code, i + 1)

\* mutant: the scratch code is not cleared after the copy
lock_update_code_keep(m, lk, new_code, pos) ==
    LET point == SlotAddr(pos)
        m1 == EEPROM_write(m, point, 1)
        m2 == EEPROM_write(m1, point + 1, new_code.code_length)
        m3 == store_digits(m2, point + 2, HeaderSize, new_code, 0)
    IN [mem |-> m3,
        self |-> [code |-> SubSeq(new_code.code, 1, new_code.code_length),
                  code_length |-> new_code.code_length,
                  active |-> 1],
        new_code |-> new_code]

\* lock::update_code: [mem, self, new_code]
lock_update_code(m, lk, new_code, pos) ==
    LET point == SlotAddr(pos)
        m1 == EEPROM_write(m, point, 1)
        m2 == EEPROM_write(m1, point + 1, new_code.code_length)
        m3 == store_digits(m2, point + 2, HeaderSize, new_code, 0)
    IN [mem |-> m3,
        self |-> [code |-> SubSeq(new_code.code, 1, new_code.code_length),
                  code_length |-> new_code.code_length,
                  active |-> 1],
        new_code |-> lock_set_active(new_code, 0)]

\* update_code reads digit 0 unconditionally and scans until a free cell is found
update_code_halts(new_code) == get_code_digit_halts(new_code, 0)
update_code_fits(m, new_code) == Cardinality(FreeCells(m)) >= new_code.code_length

\* mutant: the loop runs while i < code_length
RECURSIVE del_cells_short(_, _, _, _)
del_cells_short(m, point, i, code_length) ==
    IF i >= code_length
    THEN m
    ELSE LET m1 == EEPROM_write(m, point, 0)
         IN del_cells_short(m1, PtrAt(m1, point + 2), i + 1, code_length)

RECURSIVE del_cells(_, _, _, _)
del_cells(m, point, i, code_length) ==
    IF i > code_length
    THEN m
    ELSE LET m1 == EEPROM_write(m, point, 0)
         IN del_cells(m1, PtrAt(m1, point + 2), i + 1, code_length)

\* mutant: the walk starts at the head cell and leaves the header record alone
lock_del_code_cells(m, lk, pos) ==
    IF lk.code_length = 0
    THEN m
    ELSE del_cells(m, PtrAt(m, SlotAddr(pos) + 2), 1, lk.code_length)

\* lock::del_code: the medium afterwards
lock_del_code(m, lk, pos) == del_cells(m, SlotAddr(pos), 0, lk.code_length)

RECURSIVE read_digits(_, _, _, _)
read_digits(m, point, i, code_length) ==
    IF i >= code_length
    THEN << >>
    ELSE LET cell == PtrAt(m, point)
         IN <<int8(EEPROM_read(m, cell + 1))>>
                \o read_digits(m, cell + 2, i + 1, code_length)

\* lock::read_code: the lock afterwards
lock_read_code(m, lk, pos) ==
    LET point == SlotAddr(pos)
    IN IF EEPROM_read(m, point) = 1
       THEN LET n == EEPROM_read(m, point + 1)
            IN [code |-> read_digits(m, point + 2, 0, n),
                code_length |-> n,
                active |-> 1]
       ELSE lk

\* mutant: hash completes a code one digit short of MINLEN
set_code_short(lk, key) ==
    IF key = NoKey THEN [lk |-> lk, errs |-> 0]
    ELSE IF key = 10 THEN [lk |-> lock_set_active(lk, 2), errs |-> 0]
    ELSE IF key = 11
         THEN IF lk.code_length >= MINLEN - 1
              THEN [lk |-> lock_set_active(lk, 1), errs |-> 0]
              ELSE [lk |-> lk, errs |-> 1]
    ELSE IF key >= 12 THEN [lk |-> lk, errs |-> 1]
    ELSE IF key >= 0 /\ key < 10
         THEN IF lk.code_length < MAXLEN
              THEN [lk |-> [lk EXCEPT !.code = Append(lk.code, key),
                                      !.code_length = lk.code_length + 1],
                    errs |-> 0]
              ELSE [lk |-> lk, errs |-> 1]
    ELSE [lk |-> lk, errs |-> 0]

\* mutant: hash completes a code of any length
set_code_any(lk, key) ==
    IF key = NoKey THEN [lk |-> lk, errs |-> 0]
    ELSE IF key = 10 THEN [lk |-> lock_set_active(lk, 2), errs |-> 0]
    ELSE IF key = 11
         THEN IF lk.code_length >= 0
              THEN [lk |-> lock_set_active(lk, 1), errs |-> 0]
              ELSE [lk |-> lk, errs |-> 1]
    ELSE IF key >= 12 THEN [lk |-> lk, errs |-> 1]
    ELSE IF key >= 0 /\ key < 10
         THEN IF lk.code_length < MAXLEN
              THEN [lk |-> [lk EXCEPT !.code = Append(lk.code, key),
                                      !.code_length = lk.code_length + 1],
                    errs |-> 0]
              ELSE [lk |-> lk, errs |-> 1]
    ELSE [lk |-> lk, errs |-> 0]

\* mutant: a digit is refused only beyond MAXLEN digits
set_code_over(lk, key) ==
    IF key = NoKey THEN [lk |-> lk, errs |-> 0]
    ELSE IF key = 10 THEN [lk |-> lock_set_active(lk, 2), errs |-> 0]
    ELSE IF key = 11
         THEN IF lk.code_length >= MINLEN
              THEN [lk |-> lock_set_active(lk, 1), errs |-> 0]
              ELSE [lk |-> lk, errs |-> 1]
    ELSE IF key >= 12 THEN [lk |-> lk, errs |-> 1]
    ELSE IF key >= 0 /\ key < 10
         THEN IF lk.code_length <= MAXLEN
              THEN [lk |-> [lk EXCEPT !.code = Append(lk.code, key),
                                      !.code_length = lk.code_length + 1],
                    errs |-> 0]
              ELSE [lk |-> lk, errs |-> 1]
    ELSE [lk |-> lk, errs |-> 0]

\* lock::set_code with the key read: [lk, errs]
set_code(lk, key) ==
    IF key = NoKey THEN [lk |-> lk, errs |-> 0]
    ELSE IF key = 10 THEN [lk |-> lock_set_active(lk, 2), errs |-> 0]
    ELSE IF key = 11
         THEN IF lk.code_length >= MINLEN
              THEN [lk |-> lock_set_active(lk, 1), errs |-> 0]
              ELSE [lk |-> lk, errs |-> 1]
    ELSE IF key >= 12 THEN [lk |-> lk, errs |-> 1]
    ELSE IF key >= 0 /\ key < 10
         THEN IF lk.code_length < MAXLEN
              THEN [lk |-> [lk EXCEPT !.code = Append(lk.code, key),
                                      !.code_length = lk.code_length + 1],
                    errs |-> 0]
              ELSE [lk |-> lk, errs |-> 1]
    ELSE [lk |-> lk, errs |-> 0]

\* ---------------------------------------------------------------- state
VARIABLES
    current_state,   \* state_machine::current_state
    last_state,      \* state_machine::last_state
    select,          \* lock_box::select
    attempt,         \* lock_box::attempt
    safe,            \* lock_box::safe[4]
    admin_code,      \* lock_box::admin_code
    temp_code,       \* lock_box::temp_code
    mem,             \* the EEPROM
    errs,            \* number of err() calls made by the last step
    ret,             \* <<r>> if the last step called lock_box::compare_code, else << >>
    polled,          \* whether the last step read the keypad
    halted,          \* the program sits in one of its while(1) traps
    hist,            \* history: target of the last comparison and the number of
                     \* consecutive mismatches against it
    auth,            \* history: what has unlocked the machine since it was locked
    t                \* harness state of the store-only specification

vars == <<current_state, last_state, select, attempt, safe, admin_code,
          temp_code, mem, errs, ret, polled, halted, hist, auth, t>>

NoHist == [target |-> NoKey, n |-> 0]
NoAuth == [admin |-> FALSE, via |-> FALSE, user |-> FALSE, sel |-> NoKey]
Idle == [pc |-> "machine"]

\* ---------------------------------------------------------------- class lock_box
set_select_halts(num) == ~(num >= 0 /\ num <= 3)

\* mutant: the lockout threshold is 2
lock_box_compare_code_two(sf, adm, tmp, sel, att, code_sel) ==
    LET c == IF code_sel = 0
             THEN lock_compare_code(sf[sel], tmp)
             ELSE lock_compare_code(adm, tmp)
        val == c.ret
    IN IF val = 0
       THEN IF att + 1 = 2
            THEN [ret |-> 2, val |-> val, temp_code |-> c.comp, attempt |-> 0]
            ELSE [ret |-> val, val |-> val, temp_code |-> c.comp, attempt |-> att + 1]
       ELSE [ret |-> val, val |-> val, temp_code |-> c.comp, attempt |-> att]

\* lock_box::compare_code: [ret, val, temp_code, attempt]
lock_box_compare_code(sf, adm, tmp, sel, att, code_sel) ==
    LET c == IF code_sel = 0
             THEN lock_compare_code(sf[sel], tmp)
             ELSE lock_compare_code(adm, tmp)
        val == c.ret
    IN IF val = 0
       THEN IF att + 1 = 3
            THEN [ret |-> 2, val |-> val, temp_code |-> c.comp, attempt |-> 0]
            ELSE [ret |-> val, val |-> val, temp_code |-> c.comp, attempt |-> att + 1]
       ELSE [ret |-> val, val |-> val, temp_code |-> c.comp, attempt |-> att]

\* mutant: compartment codes always go to safe[0]
lock_box_update_code_first(m, sf, adm, tmp, sel, code_sel) ==
    IF code_sel = 0
    THEN LET u == lock_update_code(m, sf[0], tmp, 1)
         IN [mem |-> u.mem, safe |-> [sf EXCEPT ![0] = u.self],
             admin_code |-> adm, temp_code |-> u.new_code]
    ELSE LET u == lock_update_code(m, adm, tmp, 0)
         IN [mem |-> u.mem, safe |-> sf,
             admin_code |-> u.self, temp_code |-> u.new_code]

\* lock_box::update_code: [mem, safe, admin_code, temp_code]
lock_box_update_code(m, sf, adm, tmp, sel, code_sel) ==
    IF code_sel = 0
    THEN LET u == lock_update_code(m, sf[sel], tmp, sel + 1)
         IN [mem |-> u.mem, safe |-> [sf EXCEPT ![sel] = u.self],
             admin_code |-> adm, temp_code |-> u.new_code]
    ELSE LET u == lock_update_code(m, adm, tmp, 0)
         IN [mem |-> u.mem, safe |-> sf,
             admin_code |-> u.self, temp_code |-> u.new_code]

lock_box_update_code_halts(code_sel) == ~(code_sel = 0 \/ code_sel = 1)

check_active(sf, sel) == sf[sel].active

\* lock_box::set_active
lock_box_set_active(sf, sel, num) == [sf EXCEPT ![sel] = lock_set_active(sf[sel], num)]

\* lock_box::del_code
lock_box_del_code(m, sf, sel) == lock_del_code(m, sf[sel], sel + 1)

\* history of comparisons: pos is the slot compared against, val the raw result
HistAfter(h, pos, val) ==
    IF val = 1 THEN [target |-> pos, n |-> 0]
    ELSE IF h.target = pos
         THEN [target |-> pos, n |-> IF h.n >= 3 THEN 3 ELSE h.n + 1]
         ELSE [target |-> pos, n |-> 1]

\* ---------------------------------------------------------------- state machine
set_state(next_state) ==
    /\ last_state' = current_state
    /\ current_state' = next_state

\* mutant: the swap forgets its temporary
back_state_noswap ==
    /\ current_state' = last_state
    /\ last_state' = last_state

back_state ==
    /\ current_state' = last_state
    /\ last_state' = current_state

stay == UNCHANGED <<current_state, last_state>>

IsPrefix(s, c) == Len(s) <= Len(c) /\ SubSeq(c, 1, Len(s)) = s

\* digit keys typed into a code keep it a prefix of one of the typed codes; a
\* code that already holds EntryFrom digits takes any digit key
Typable(lk, key) ==
    (key >= 0 /\ key < 10) =>
        \/ \E c \in TypedCodes : IsPrefix(Append(lk.code, key), c)
        \/ lk.code_length >= EntryFrom

\* the header that initial_state expects at addresses 0..4
header == <<106, 111, 115, 104, 1>>

RECURSIVE write_header(_, _)
write_header(m, i) ==
    IF i >= Len(header)
    THEN m
    ELSE IF int8(EEPROM_read(m, i)) # header[i + 1]
         THEN write_header(EEPROM_write(m, i, header[i + 1]), i + 1)
         ELSE write_header(m, i + 1)

\* mutant: only the four signature bytes are compared
header_valid_sig(m) == \A i \in 0 .. 3 : int8(EEPROM_read(m, i)) = header[i + 1]

header_valid(m) == \A i \in 0 .. (Len(header) - 1) : int8(EEPROM_read(m, i)) = header[i + 1]

\* mutant: the loop stops one record early
RECURSIVE zero_records_four(_, _)
zero_records_four(m, i) ==
    IF i >= 5
    THEN m
    ELSE zero_records_four(EEPROM_write(EEPROM_write(m, i * 4, 0), (i * 4) + 1, 0), i + 1)

RECURSIVE zero_records(_, _)
zero_records(m, i) ==
    IF i > 5
    THEN m
    ELSE zero_records(EEPROM_write(EEPROM_write(m, i * 4, 0), (i * 4) + 1, 0), i + 1)

\* state_machine::initial_state as a function of the medium and the fresh locks:
\* [mem, admin_code, safe, next]
initial_result(m, adm, sf) ==
    IF header_valid(m)
    THEN [mem |-> write_header(m, 0),
          admin_code |-> lock_read_code(m, adm, 0),
          safe |-> [j \in 0 .. 3 |-> lock_read_code(m, sf[j], j + 1)],
          next |-> "userLocked"]
    ELSE [mem |-> zero_records(write_header(m, 0), 1),
          admin_code |-> adm,
          safe |-> sf,
          next |-> "adminLocked"]

initial_state ==
    /\ current_state = "initial"
    /\ ~halted
    /\ LET r == initial_result(mem, admin_code, safe)
       IN /\ mem' = r.mem
          /\ admin_code' = r.admin_code
          /\ safe' = r.safe
          /\ set_state(r.next)
    /\ errs' = 0 /\ ret' = << >> /\ polled' = FALSE
    /\ UNCHANGED <<select, attempt, temp_code, halted>>

user_locked_state(key) ==
    /\ current_state = "userLocked"
    /\ ~halted
    /\ polled' = TRUE /\ ret' = << >>
    /\ IF key = NoKey
       THEN errs' = 0 /\ stay /\ UNCHANGED <<select, halted>>
       ELSE IF key = 10
       THEN errs' = 0 /\ set_state("adminLocked") /\ UNCHANGED <<select, halted>>
       ELSE IF key <= 11
       THEN errs' = 1 /\ stay /\ UNCHANGED <<select, halted>>
       ELSE IF key > 11 /\ key <= 15
       THEN IF set_select_halts(key - 12)
            THEN halted' = TRUE /\ errs' = 0 /\ stay /\ UNCHANGED select
            ELSE /\ select' = key - 12
                 /\ set_state("safeSelect")
                 /\ errs' = 0 /\ UNCHANGED halted
       ELSE errs' = 0 /\ stay /\ UNCHANGED <<select, halted>>
    /\ UNCHANGED <<attempt, safe, admin_code, temp_code, mem>>

\* the Confirm branch shared by the handlers that compare the scratch code:
\* code_sel names the target, unlocked the state a match leads to
compare_step(t1, code_sel, unlocked) ==
    LET c == lock_box_compare_code(safe, admin_code, t1, select, attempt, code_sel)
    IN /\ temp_code' = c.temp_code
       /\ attempt' = c.attempt
       /\ ret' = <<c.ret>>
       /\ IF c.ret = 1
          THEN set_state(unlocked) /\ errs' = 0
          ELSE IF c.ret = 2
          THEN set_state("lockout") /\ errs' = 0
          ELSE stay /\ errs' = 1
       /\ UNCHANGED <<select, safe, admin_code, mem, halted>>

\* digi_safe.update_code(code_sel) on the completed scratch code t1
commit_step(t1, code_sel) ==
    IF lock_box_update_code_halts(code_sel) \/ update_code_halts(t1)
    THEN /\ halted' = TRUE
         /\ temp_code' = t1
         /\ UNCHANGED <<safe, admin_code, mem>>
    ELSE /\ update_code_fits(mem, t1)
         /\ LET u == lock_box_update_code(mem, safe, admin_code, t1, select, code_sel)
            IN /\ mem' = u.mem
               /\ safe' = u.safe
               /\ admin_code' = u.admin_code
               /\ temp_code' = u.temp_code
         /\ UNCHANGED halted

admin_locked_state(key) ==
    /\ current_state = "adminLocked"
    /\ ~halted
    /\ Typable(temp_code, key)
    /\ polled' = TRUE
    /\ LET sc == set_code(temp_code, key)
           t1 == sc.lk
       IN IF t1.active = 1
          THEN IF admin_code.active # 0
               THEN compare_step(t1, 1, "adminUnlocked")
               ELSE /\ commit_step(t1, 1)
                    /\ IF halted' THEN stay ELSE set_state("adminUnlocked")
                    /\ errs' = 0 /\ ret' = << >>
                    /\ UNCHANGED <<select, attempt>>
          ELSE IF t1.active = 2
          THEN /\ temp_code' = lock_set_active(t1, 0)
               /\ IF admin_code.active = 1 THEN set_state("userLocked") ELSE stay
               /\ errs' = 0 /\ ret' = << >>
               /\ UNCHANGED <<select, attempt, safe, admin_code, mem, halted>>
          ELSE /\ temp_code' = t1
               /\ errs' = sc.errs /\ ret' = << >>
               /\ stay
               /\ UNCHANGED <<select, attempt, safe, admin_code, mem, halted>>

admin_unlocked_state(key) ==
    /\ current_state = "adminUnlocked"
    /\ ~halted
    /\ polled' = TRUE /\ ret' = << >>
    /\ IF key = NoKey
       THEN errs' = 0 /\ stay /\ UNCHANGED <<select, halted>>
       ELSE IF key = 10
       THEN errs' = 0 /\ set_state("adminLocked") /\ UNCHANGED <<select, halted>>
       ELSE IF key = 1
       THEN errs' = 0 /\ set_state("userLocked") /\ UNCHANGED <<select, halted>>
       ELSE IF key = 2
       THEN errs' = 0 /\ stay /\ UNCHANGED <<select, halted>>
       ELSE IF key = 3
       THEN errs' = 0 /\ set_state("editCode") /\ UNCHANGED <<select, halted>>
       ELSE IF key > 11 /\ key <= 15
       THEN IF set_select_halts(key - 12)
            THEN halted' = TRUE /\ errs' = 0 /\ stay /\ UNCHANGED select
            ELSE /\ select' = key - 12
                 /\ set_state("userUnlocked")
                 /\ errs' = 0 /\ UNCHANGED halted
       ELSE errs' = 1 /\ stay /\ UNCHANGED <<select, halted>>
    /\ UNCHANGED <<attempt, safe, admin_code, temp_code, mem>>

safe_select_state(key) ==
    /\ current_state = "safeSelect"
    /\ ~halted
    /\ Typable(temp_code, key)
    /\ polled' = TRUE
    /\ LET sc == set_code(temp_code, key)
           t1 == sc.lk
       IN IF t1.active = 1
          THEN IF check_active(safe, select) # 0
               THEN compare_step(t1, 0, "userUnlocked")
               ELSE /\ commit_step(t1, 0)
                    /\ IF halted' THEN stay ELSE set_state("userUnlocked")
                    /\ errs' = 0 /\ ret' = << >>
                    /\ UNCHANGED <<select, attempt>>
          ELSE IF t1.active = 2
          THEN /\ temp_code' = lock_set_active(t1, 0)
               /\ set_state("userLocked")
               /\ errs' = 0 /\ ret' = << >>
               /\ UNCHANGED <<select, attempt, safe, admin_code, mem, halted>>
          ELSE /\ temp_code' = t1
               /\ errs' = sc.errs /\ ret' = << >>
               /\ stay
               /\ UNCHANGED <<select, attempt, safe, admin_code, mem, halted>>

user_unlocked_state(key) ==
    /\ current_state = "userUnlocked"
    /\ ~halted
    /\ polled' = TRUE /\ ret' = << >>
    /\ IF key = NoKey
       THEN errs' = 0 /\ stay /\ UNCHANGED <<safe, mem>>
       ELSE IF key = 10
       THEN errs' = 0 /\ back_state /\ UNCHANGED <<safe, mem>>
       ELSE IF key = 1
       THEN errs' = 0 /\ set_state("userLocked") /\ UNCHANGED <<safe, mem>>
       ELSE IF key = 2
       THEN /\ mem' = lock_box_del_code(mem, safe, select)
            /\ safe' = lock_box_set_active(safe, select, 0)
            /\ set_state("userLocked")
            /\ errs' = 0
       ELSE IF key = 3
       THEN errs' = 0 /\ set_state("editCode") /\ UNCHANGED <<safe, mem>>
       ELSE errs' = 1 /\ stay /\ UNCHANGED <<safe, mem>>
    /\ UNCHANGED <<select, attempt, admin_code, temp_code, halted>>

edit_code_state(key) ==
    /\ current_state = "editCode"
    /\ ~halted
    /\ Typable(temp_code, key)
    /\ polled' = TRUE /\ ret' = << >>
    /\ LET sc == set_code(temp_code, key)
           t1 == sc.lk
       IN IF t1.active = 1
          THEN /\ IF last_state = "userUnlocked"
                  THEN commit_step(t1, 0)
                  ELSE IF last_state = "adminUnlocked"
                  THEN commit_step(t1, 1)
                  ELSE /\ halted' = TRUE
                       /\ temp_code' = t1
                       /\ UNCHANGED <<safe, admin_code, mem>>
               /\ IF halted' THEN stay ELSE back_state
               /\ errs' = 0
          ELSE IF t1.active = 2
          THEN /\ temp_code' = lock_set_active(t1, 0)
               /\ back_state
               /\ errs' = 0
               /\ UNCHANGED <<safe, admin_code, mem, halted>>
          ELSE /\ temp_code' = t1
               /\ errs' = sc.errs
               /\ stay
               /\ UNCHANGED <<safe, admin_code, mem, halted>>
    /\ UNCHANGED <<select, attempt>>

\* mutant: lockout always ends in userLocked
lockout_state_locked ==
    /\ current_state = "lockout"
    /\ ~halted
    /\ errs' = LOCKTIME
    /\ set_state("userLocked")
    /\ polled' = FALSE /\ ret' = << >>
    /\ UNCHANGED <<select, attempt, safe, admin_code, temp_code, mem, halted>>

lockout_state ==
    /\ current_state = "lockout"
    /\ ~halted
    /\ errs' = LOCKTIME
    /\ set_state(last_state)
    /\ polled' = FALSE /\ ret' = << >>
    /\ UNCHANGED <<select, attempt, safe, admin_code, temp_code, mem, halted>>

\* Power is lost between two steps and main() starts again: the objects are
\* constructed anew (last_state is left uninitialised), the EEPROM is kept.
PowerCycle ==
    /\ current_state # "initial"
    /\ current_state' = "initial"
    /\ last_state' \in States
    /\ select' = 0
    /\ attempt' = 0
    /\ safe' = [j \in 0 .. 3 |-> NewLock]
    /\ admin_code' = NewLock
    /\ temp_code' = NewLock
    /\ errs' = 0 /\ ret' = << >> /\ polled' = FALSE
    /\ halted' = FALSE
    /\ UNCHANGED mem

\* main(): the objects as constructed, on an EEPROM that was never written
Init ==
    /\ current_state = "initial"
    /\ last_state \in States
    /\ select = 0
    /\ attempt = 0
    /\ safe = [j \in 0 .. 3 |-> NewLock]
    /\ admin_code = NewLock
    /\ temp_code = NewLock
    /\ mem = Blank
    /\ errs = 0 /\ ret = << >> /\ polled = FALSE
    /\ halted = FALSE
    /\ hist = NoHist
    /\ auth = NoAuth
    /\ t = Idle

\* the history variable follows the comparisons: ret' says whether the step
\* compared, current_state and select against which slot
HistNext ==
    hist' = IF current_state' = "initial" THEN NoHist
            ELSE IF ret' = << >> THEN hist
            ELSE HistAfter(hist,
                           IF current_state = "adminLocked" THEN 0 ELSE select + 1,
                           IF ret'[1] = 1 THEN 1 ELSE 0)

Differs(a, b) ==
    \/ a.code_length # b.code_length
    \/ \E i \in 1 .. a.code_length : a.code[i] # b.code[i]

\* the unlock history follows the steps: in AdminLocked a comparison of a
\* scratch code equal to the admin code or the commit of the first admin code,
\* the same in SafeSelect with the selection it was made for, a visit to
\* AdminUnlocked; the locked states clear it
AuthNext ==
    LET adminAuth == /\ current_state = "adminLocked"
                     /\ \/ ret' # << >> /\ ~Differs(temp_code, admin_code)
                        \/ admin_code.active = 0 /\ admin_code'.active = 1
        userAuth == /\ current_state = "safeSelect"
                    /\ \/ ret' # << >> /\ ~Differs(temp_code, safe[select])
                       \/ safe[select].active = 0 /\ safe'[select].active = 1
    IN auth' = IF current_state' = "initial" THEN NoAuth
               ELSE [admin |-> IF adminAuth THEN TRUE
                               ELSE IF current_state' \in {"userLocked", "adminLocked"}
                                    THEN FALSE
                                    ELSE auth.admin,
                     via |-> IF current_state' = "userLocked" THEN FALSE
                             ELSE IF current_state' = "adminUnlocked" THEN TRUE
                                  ELSE auth.via,
                     user |-> IF current_state' = "userLocked" THEN FALSE
                              ELSE IF userAuth THEN TRUE
                                   ELSE auth.user,
                     sel |-> IF current_state' = "userLocked" THEN NoKey
                             ELSE IF userAuth THEN select
                                  ELSE auth.sel]

Plain(A) == A /\ UNCHANGED <<hist, auth, t>>
Tracked(A) == A /\ HistNext /\ UNCHANGED <<auth, t>>
Unlocks(A) == A /\ AuthNext /\ UNCHANGED <<hist, t>>

\* state_machine::run_state, one call per step
Next ==
    \/ Plain(initial_state)
    \/ \E key \in Keys : Plain(user_locked_state(key))
    \/ \E key \in Keys : Plain(admin_locked_state(key))
    \/ \E key \in Keys : Plain(admin_unlocked_state(key))
    \/ \E key \in Keys : Plain(safe_select_state(key))
    \/ \E key \in Keys : Plain(user_unlocked_state(key))
    \/ \E key \in Keys : Plain(edit_code_state(key))
    \/ Plain(lockout_state)
    \/ Plain(PowerCycle)

Spec == Init /\ [][Next]_vars

\* the machine on first power-up after initial_state has formatted the EEPROM
\* and EntryFrom digit keys have been typed in AdminLocked
InitEntry ==
    LET r == initial_result(Blank, NewLock, [j \in 0 .. 3 |-> NewLock])
    IN /\ current_state = r.next
       /\ last_state = "initial"
       /\ select = 0
       /\ attempt = 0
       /\ safe = r.safe
       /\ admin_code = r.admin_code
       /\ temp_code = [code |-> [i \in 1 .. EntryFrom |-> 9],
                       code_length |-> EntryFrom,
                       active |-> 0]
       /\ mem = r.mem
       /\ errs = 0 /\ ret = << >> /\ polled = TRUE
       /\ halted = FALSE
       /\ hist = NoHist
       /\ auth = NoAuth
       /\ t = Idle

SpecEntry == InitEntry /\ [][Next]_vars

\* the same machine with the comparison history recorded
NextHist ==
    \/ Tracked(initial_state)
    \/ \E key \in Keys : Tracked(user_locked_state(key))
    \/ \E key \in Keys : Tracked(admin_locked_state(key))
    \/ \E key \in Keys : Tracked(admin_unlocked_state(key))
    \/ \E key \in Keys : Tracked(safe_select_state(key))
    \/ \E key \in Keys : Tracked(user_unlocked_state(key))
    \/ \E key \in Keys : Tracked(edit_code_state(key))
    \/ Tracked(lockout_state)
    \/ Tracked(PowerCycle)

SpecHist == Init /\ [][NextHist]_vars

\* the same machine with the unlock history recorded
NextAuth ==
    \/ Unlocks(initial_state)
    \/ \E key \in Keys : Unlocks(user_locked_state(key))
    \/ \E key \in Keys : Unlocks(admin_locked_state(key))
    \/ \E key \in Keys : Unlocks(admin_unlocked_state(key))
    \/ \E key \in Keys : Unlocks(safe_select_state(key))
    \/ \E key \in Keys : Unlocks(user_unlocked_state(key))
    \/ \E key \in Keys : Unlocks(edit_code_state(key))
    \/ Unlocks(lockout_state)
    \/ Unlocks(PowerCycle)

SpecAuth == Init /\ [][NextAuth]_vars

\* state_machine::run_state: any one step of the program itself
run_state ==
    \/ initial_state
    \/ \E key \in Keys : user_locked_state(key)
    \/ \E key \in Keys : admin_locked_state(key)
    \/ \E key \in Keys : admin_unlocked_state(key)
    \/ \E key \in Keys : safe_select_state(key)
    \/ \E key \in Keys : user_unlocked_state(key)
    \/ \E key \in Keys : edit_code_state(key)
    \/ lockout_state

\* the cells visited by read_code's traversal of slot pos for n digits
RECURSIVE chain_cells(_, _, _, _)
chain_cells(m, point, i, n) ==
    IF i >= n
    THEN << >>
    ELSE LET cell == PtrAt(m, point)
         IN <<cell>> \o chain_cells(m, cell + 2, i + 1, n)

ChainOf(m, pos) ==
    chain_cells(m, SlotAddr(pos) + 2, 0, EEPROM_read(m, SlotAddr(pos) + 1))

Range(s) == {s[i] : i \in DOMAIN s}

\* ---------------------------------------------------------------- the store alone
\* The code store driven directly: lock_box::update_code on any slot with any
\* complete code, lock_box::del_code on a compartment, and read_code into a
\* freshly constructed lock, starting from the EEPROM as initial_state formats it.
StoreCodes == {<<0, 0, 0, 0, 0>>, <<9, 8, 7, 6, 5>>, <<1, 2, 3, 4, 5, 6>>}
StoreSlots == {0, 1, 4}

InitStore ==
    /\ current_state = "initial"
    /\ last_state = "initial"
    /\ select = 0
    /\ attempt = 0
    /\ safe = [j \in 0 .. 3 |-> NewLock]
    /\ admin_code = NewLock
    /\ temp_code = NewLock
    /\ mem = initial_result(Blank, NewLock, [j \in 0 .. 3 |-> NewLock]).mem
    /\ errs = 0 /\ ret = << >> /\ polled = FALSE
    /\ halted = FALSE
    /\ hist = NoHist
    /\ auth = NoAuth
    /\ t = [pc |-> "idle", pos |-> 0, code |-> << >>, loaded |-> NewLock]

StoreFrame == UNCHANGED <<current_state, last_state, attempt, errs, ret, polled,
                          halted, hist, auth>>

\* storeSlot: the scratch code is completed with the digits of c and committed
T_store(pos, c) ==
    /\ t.pc = "idle"
    /\ LET scratch == [code |-> c, code_length |-> Len(c), active |-> 1]
           sel == IF pos = 0 THEN select ELSE pos - 1
           u == lock_box_update_code(mem, safe, admin_code, scratch, sel,
                                     IF pos = 0 THEN 1 ELSE 0)
       IN /\ update_code_fits(mem, scratch)
          /\ select' = sel
          /\ mem' = u.mem
          /\ safe' = u.safe
          /\ admin_code' = u.admin_code
          /\ temp_code' = u.temp_code
    /\ t' = [pc |-> "stored", pos |-> pos, code |-> c, loaded |-> NewLock]
    /\ StoreFrame

\* loadSlot of the slot just stored, into a lock as constructed
T_load ==
    /\ t.pc = "stored"
    /\ t' = [t EXCEPT !.pc = "loaded", !.loaded = lock_read_code(mem, NewLock, t.pos)]
    /\ UNCHANGED <<select, mem, safe, admin_code, temp_code>>
    /\ StoreFrame

T_done ==
    /\ t.pc = "loaded"
    /\ t' = [pc |-> "idle", pos |-> 0, code |-> << >>, loaded |-> NewLock]
    /\ UNCHANGED <<select, mem, safe, admin_code, temp_code>>
    /\ StoreFrame

\* eraseSlot as user_unlocked_state releases a compartment
T_erase(pos) ==
    /\ t.pc = "idle"
    /\ pos # 0
    /\ select' = pos - 1
    /\ mem' = lock_box_del_code(mem, safe, pos - 1)
    /\ safe' = lock_box_set_active(safe, pos - 1, 0)
    /\ UNCHANGED <<admin_code, temp_code, t>>
    /\ StoreFrame

NextStore ==
    \/ \E pos \in StoreSlots, c \in StoreCodes : T_store(pos, c)
    \/ T_load
    \/ T_done
    \/ \E pos \in StoreSlots : T_erase(pos)

SpecStore == InitStore /\ [][NextStore]_vars

\* ---------------------------------------------------------------- claims

\* C1: storing a code into a slot and then loading that slot from the medium
\* yields the same length and the same digits in the same order, whatever
\* cells other slots (or earlier codes of this slot) occupy.
C1_RoundTrip ==
    t.pc = "loaded" =>
        /\ t.loaded.active = 1
        /\ t.loaded.code_length = Len(t.code)
        /\ Len(t.loaded.code) = Len(t.code)
        /\ \A i \in 1 .. Len(t.code) : t.loaded.code[i] = t.code[i]

\* a code loaded back from a chain that is not contiguous in the heap
C1_Witness ==
    /\ t.pc = "loaded"
    /\ t.loaded.code = t.code
    /\ LET ch == ChainOf(mem, t.pos)
       IN /\ ch[1] > HeaderSize
          /\ \E i \in 1 .. (Len(ch) - 1) : ch[i + 1] # ch[i] + 4

\* the five slots as held in memory: admin first, then the compartments
SlotsInMemory == <<admin_code, safe[0], safe[1], safe[2], safe[3]>>

\* the five slots as a restart would rebuild them from a medium
SlotsAfterRestart(m) ==
    LET r == initial_result(m, NewLock, [j \in 0 .. 3 |-> NewLock])
    IN <<r.admin_code, r.safe[0], r.safe[1], r.safe[2], r.safe[3]>>

\* C2: at the end of every step, running initial_state again on the medium as
\* it is rebuilds, for each of the five slots, the active flag, length and
\* digits the slot holds in memory.
C2_Persistence ==
    current_state # "initial" =>
        LET rebuilt == SlotsAfterRestart(mem)
        IN \A k \in 1 .. 5 :
               /\ rebuilt[k].active = SlotsInMemory[k].active
               /\ rebuilt[k].code_length = SlotsInMemory[k].code_length
               /\ rebuilt[k].code = SlotsInMemory[k].code

\* admin and compartment 3 hold codes, compartment 0 was stored and released
C2_Witness ==
    /\ current_state = "userLocked"
    /\ admin_code.active = 1
    /\ safe[3].active = 1
    /\ safe[0].active = 0
    /\ EEPROM_read(mem, SlotAddr(1) + 1) >= MINLEN
    /\ SlotsAfterRestart(mem)[5].code = safe[3].code

\* the slot a comparison of this step is made against
Target == IF current_state = "adminLocked" THEN admin_code ELSE safe[select]

\* C3: a comparison with a scratch code that differs from the target in length
\* or in a digit never returns Matched, and after every comparison the scratch
\* code is Empty while the slots are unchanged.
C3_Compare ==
    [][ret' # << >> =>
          /\ Differs(temp_code, Target) => ret'[1] # 1
          /\ temp_code'.code_length = 0
          /\ temp_code'.code = << >>
          /\ temp_code'.active # 1
          /\ admin_code' = admin_code
          /\ safe' = safe]_vars

\* a mismatch against a compartment code of the same length
C3_Witness ==
    /\ ret = <<0>>
    /\ current_state = "safeSelect"
    /\ safe[select].active = 1
    /\ safe[select].code_length = MINLEN
    /\ temp_code.code_length = 0

\* C4: after any comparison that returns Matched the failure counter is 0.
C4_MatchResets == (ret = <<1>>) => (attempt = 0)

\* C5: the machine is in Lockout only when the three most recent comparisons
\* were all mismatches against the same target.
C5_SameTarget == (current_state = "lockout") => (hist.n >= 3)

\* C6: with the admin code set, confirming a wrong code in AdminLocked with the
\* counter at 0 or 1 signals a soft error, stays in AdminLocked and counts one
\* more; with the counter at 2 it moves to Lockout and the counter is 0; no
\* step without a comparison changes the counter.
C6_ThreeWrong ==
    [][/\ (/\ current_state = "adminLocked"
           /\ admin_code.active = 1
           /\ ret' # << >>
           /\ Differs(temp_code, admin_code))
          => IF attempt < 2
             THEN /\ ret' = <<0>>
                  /\ errs' = 1
                  /\ current_state' = "adminLocked"
                  /\ attempt' = attempt + 1
             ELSE /\ ret' = <<2>>
                  /\ current_state' = "lockout"
                  /\ attempt' = 0
       /\ (ret' = << >> /\ current_state' # "initial") => attempt' = attempt]_vars

\* the third wrong admin code has just been confirmed
C6_Witness ==
    /\ current_state = "lockout"
    /\ last_state = "adminLocked"
    /\ ret = <<2>>
    /\ attempt = 0

\* C7: the step taken in Lockout signals LOCKTIME alerts, reads no key and
\* returns to the state Lockout was entered from, leaving slots, selection,
\* scratch and medium unchanged; Lockout is entered only by a comparison that
\* returns 2, from AdminLocked or SafeSelect, never by a go-back.
C7_Lockout ==
    [][/\ (current_state = "lockout" /\ current_state' # "initial")
          => /\ errs' = LOCKTIME
             /\ ~polled'
             /\ current_state' = last_state
             /\ current_state' \in {"adminLocked", "safeSelect"}
             /\ last_state' = "lockout"
             /\ UNCHANGED <<admin_code, safe, select, temp_code, mem>>
       /\ (current_state' = "lockout")
          => /\ ret' = <<2>>
             /\ current_state \in {"adminLocked", "safeSelect"}
             /\ last_state' = current_state
       /\ (current_state \in {"userUnlocked", "editCode"})
          => last_state # "lockout"]_vars

\* Lockout has just been left towards SafeSelect
C7_Witness ==
    /\ errs = LOCKTIME
    /\ last_state = "lockout"
    /\ current_state = "safeSelect"
    /\ ~polled

\* C8: releasing a selected compartment that holds a code of n digits leaves
\* it inactive in memory and on the medium, frees exactly the n cells of its
\* chain, changes no other cell's marker, and moves to UserLocked.
C8_Release ==
    [][(user_unlocked_state(2) /\ safe[select].active = 1)
          => LET n == safe[select].code_length
                 chain == Range(ChainOf(mem, select + 1))
             IN /\ safe'[select].active = 0
                /\ lock_read_code(mem', NewLock, select + 1) = NewLock
                /\ Cardinality(chain) = n
                /\ chain \subseteq CellAddrs
                /\ \A a \in chain : /\ EEPROM_read(mem, a) = Occupied
                                    /\ EEPROM_read(mem', a) # Occupied
                /\ \A a \in CellAddrs \ chain :
                       EEPROM_read(mem', a) = EEPROM_read(mem, a)
                /\ current_state' = "userLocked"]_vars

\* a compartment that held a code has just been released
C8_Witness ==
    /\ current_state = "userLocked"
    /\ last_state = "userUnlocked"
    /\ safe[select].active = 0
    /\ EEPROM_read(mem, SlotAddr(select + 1)) = 0
    /\ EEPROM_read(mem, SlotAddr(select + 1) + 1) >= MINLEN
    /\ EEPROM_read(mem, PtrAt(mem, SlotAddr(select + 1) + 2)) = 0

\* C9: Cancel in UserUnlocked reached from EditCode leads to EditCode, Cancel
\* there leads back to UserUnlocked; each swaps (current, last) and changes no
\* slot, selection or medium byte.
C9_Toggle ==
    [][/\ (user_unlocked_state(10) /\ last_state = "editCode")
          => /\ current_state' = "editCode"
             /\ last_state' = "userUnlocked"
             /\ UNCHANGED <<admin_code, safe, select, mem>>
       /\ (edit_code_state(10) /\ last_state = "userUnlocked")
          => /\ current_state' = "userUnlocked"
             /\ last_state' = "editCode"
             /\ UNCHANGED <<admin_code, safe, select, mem>>]_vars

\* EditCode with UserUnlocked behind it, nothing typed, no error signalled
C9_Witness ==
    /\ current_state = "editCode"
    /\ last_state = "userUnlocked"
    /\ safe[select].active = 1
    /\ temp_code.code_length = 0

SignaturePresent(m) ==
    /\ EEPROM_read(m, 0) = 106
    /\ EEPROM_read(m, 1) = 111
    /\ EEPROM_read(m, 2) = 115
    /\ EEPROM_read(m, 3) = 104

\* what Init does when it accepts the medium, and when it does not
InitLoads ==
    /\ mem' = mem
    /\ \A k \in 1 .. 5 : SlotsInMemory[k]' = lock_read_code(mem, NewLock, k - 1)
    /\ current_state' = "userLocked"

InitFormats ==
    /\ SignaturePresent(mem')
    /\ \A k \in 1 .. 5 : /\ EEPROM_read(mem', 4 * k) = 0
                         /\ EEPROM_read(mem', (4 * k) + 1) = 0
                         /\ SlotsInMemory[k]'.active = 0
    /\ current_state' = "adminLocked"

\* Init is left by its own step, and no step of the program returns to it
InitOnce ==
    /\ initial_state => current_state' # "initial"
    /\ run_state => current_state' # "initial"

\* C10 as stated: Init decides on the signature at addresses 0..3 alone.
C10_SignatureAlone ==
    [][/\ initial_state => IF SignaturePresent(mem) THEN InitLoads ELSE InitFormats
       /\ InitOnce]_vars

\* C10 amended: Init accepts the medium when addresses 0..3 hold the signature
\* and address 4, the admin slot's active flag, holds 1.
C10_SignatureAndAdmin ==
    [][/\ initial_state
          => IF SignaturePresent(mem) /\ EEPROM_read(mem, 4) = 1
             THEN InitLoads
             ELSE InitFormats
       /\ InitOnce]_vars

\* Init has just loaded the admin code and a compartment code
C10_Witness ==
    /\ current_state = "userLocked"
    /\ last_state = "initial"
    /\ admin_code.active = 1
    /\ safe[3].active = 1
    /\ ~polled

\* cells whose marker is 0xCC
OccupiedCells(m) == CellAddrs \ FreeCells(m)

\* the step of the current state's handler on key
StepWith(key) ==
    \/ user_locked_state(key)
    \/ admin_locked_state(key)
    \/ admin_unlocked_state(key)
    \/ safe_select_state(key)
    \/ user_unlocked_state(key)
    \/ edit_code_state(key)

\* the slot (0 = admin, 1..4 = compartments) a Confirm of this state commits to
CommitPos ==
    IF current_state = "adminLocked" THEN 0
    ELSE IF current_state = "editCode" /\ last_state = "adminUnlocked" THEN 0
    ELSE select + 1

\* a step in which Confirm commits the scratch code
Commits ==
    /\ StepWith(11)
    /\ temp_code.code_length >= MINLEN
    /\ \/ current_state = "adminLocked" /\ admin_code.active = 0
       \/ current_state = "safeSelect" /\ safe[select].active = 0
       \/ current_state = "editCode"

\* C11: whenever a Confirm commits the scratch code (AdminLocked with no admin
\* code, SafeSelect on an inactive compartment, EditCode), afterwards the target
\* slot is active and holds exactly the digits typed into the scratch code, and
\* the scratch code is Empty.
C11_Commit ==
    [][Commits =>
          LET target == (SlotsInMemory')[CommitPos + 1]
          IN /\ target.active = 1
             /\ target.code_length = temp_code.code_length
             /\ target.code = temp_code.code
             /\ temp_code'.code_length = 0
             /\ temp_code'.code = << >>
             /\ temp_code'.active = 0]_vars

\* the admin code has been replaced through EditCode: its old cells and its new
\* cells are all marked, no compartment holds a code
C11_Witness ==
    /\ current_state = "adminUnlocked"
    /\ last_state = "editCode"
    /\ admin_code.active = 1
    /\ \A j \in 0 .. 3 : safe[j].active = 0
    /\ Cardinality(OccupiedCells(mem)) >= admin_code.code_length + MINLEN
    /\ temp_code.code_length = 0

\* C12: Confirm in EditCode entered from AdminUnlocked changes only the admin
\* code, entered from UserUnlocked only the selected compartment's code, in
\* memory and as the medium reconstructs it, and returns to the state EditCode
\* was entered from; EditCode is entered from these two states only.
C12_EditTarget ==
    [][/\ (Commits /\ current_state = "editCode")
          => /\ last_state \in {"adminUnlocked", "userUnlocked"}
             /\ current_state' = last_state
             /\ \A k \in 1 .. 5 :
                    (k # CommitPos + 1)
                    => /\ (SlotsInMemory')[k] = SlotsInMemory[k]
                       /\ lock_read_code(mem', NewLock, k - 1)
                              = lock_read_code(mem, NewLock, k - 1)
             /\ (last_state = "userUnlocked") => (CommitPos = select + 1)
             /\ (last_state = "adminUnlocked") => (CommitPos = 0)
             /\ select' = select
       /\ (current_state' = "editCode" /\ current_state # "editCode")
          => /\ current_state \in {"adminUnlocked", "userUnlocked"}
             /\ last_state' = current_state]_vars

\* UserUnlocked re-entered from EditCode: the selected compartment holds a
\* six-digit code stored behind the admin chain, which still starts the heap
C12_Witness ==
    /\ current_state = "userUnlocked"
    /\ last_state = "editCode"
    /\ select = 3
    /\ admin_code.active = 1
    /\ PtrAt(mem, SlotAddr(0) + 2) = HeaderSize
    /\ lock_read_code(mem, NewLock, 0) = admin_code
    /\ safe[select].active = 1
    /\ safe[select].code_length = MINLEN + 1
    /\ PtrAt(mem, SlotAddr(select + 1) + 2) = HeaderSize + 4 * admin_code.code_length
    /\ temp_code.code_length = 0

\* the states whose handler feeds the key to lock::set_code
SetCodeStates == {"adminLocked", "safeSelect", "editCode"}

\* keys the current state's handler answers with err() alone
WrongClass(key) ==
    \/ current_state = "userLocked" /\ key >= 0 /\ key <= 11 /\ key # 10
    \/ current_state = "adminUnlocked" /\ key >= 0 /\ key <= 15
          /\ key \notin {1, 2, 3, 10, 12, 13, 14, 15}
    \/ current_state = "userUnlocked" /\ key >= 0 /\ key <= 15
          /\ key \notin {1, 2, 3, 10}
    \/ current_state \in SetCodeStates /\ key >= 12 /\ key <= 15

Overflow(key) ==
    /\ current_state \in SetCodeStates
    /\ key >= 0 /\ key < 10
    /\ temp_code.code_length = MAXLEN

TooShort(key) ==
    /\ current_state \in SetCodeStates
    /\ key = 11
    /\ temp_code.code_length < MINLEN

\* a Confirm that compares a wrong code while the counter is below two
WrongCode(key) ==
    /\ key = 11
    /\ temp_code.code_length >= MINLEN
    /\ \/ current_state = "adminLocked" /\ admin_code.active = 1
       \/ current_state = "safeSelect" /\ safe[select].active = 1
    /\ Differs(temp_code, Target)
    /\ attempt < 2

\* C13: a key of the wrong class for the current state, a digit typed into a
\* scratch code of 50 digits and a Confirm with fewer than 5 digits signal an
\* error and change nothing (states, selection, counter, scratch code, slots,
\* medium); a wrong code that does not bring the counter to three signals an
\* error, empties the scratch code, adds one to the counter and changes
\* nothing else.
C13_SoftErrors ==
    [][\A key \in Keys :
          /\ ((WrongClass(key) \/ Overflow(key) \/ TooShort(key)) /\ StepWith(key))
             => /\ errs' = 1
                /\ UNCHANGED <<current_state, last_state, select, attempt,
                               temp_code, safe, admin_code, mem, halted>>
          /\ (WrongCode(key) /\ StepWith(key))
             => /\ errs' = 1
                /\ UNCHANGED <<current_state, last_state, select,
                               safe, admin_code, mem, halted>>
                /\ temp_code'.code_length = 0
                /\ temp_code'.code = << >>
                /\ attempt' = attempt + 1]_vars

\* a key was refused while the scratch code holds 50 digits
C13_Witness ==
    /\ errs = 1
    /\ temp_code.code_length = MAXLEN
    /\ current_state = "adminLocked"

\* the cells of slot pos's chain if its header record is active, else none
ActiveChain(m, pos) ==
    IF EEPROM_read(m, SlotAddr(pos)) = 1 THEN Range(ChainOf(m, pos)) ELSE {}

\* the addresses whose byte differs between two media
Changed(m1, m2) ==
    {a \in 0 .. (MemSize - 1) : EEPROM_read(m1, a) # EEPROM_read(m2, a)}

\* the cell an address of the heap lies in
CellOf(a) == a - ((a - HeaderSize) % 4)

\* the four bytes at a .. a+3
Record(m, a) == <<EEPROM_read(m, a), EEPROM_read(m, a + 1),
                  EEPROM_read(m, a + 2), EEPROM_read(m, a + 3)>>

\* C14: a medium that holds the signature keeps addresses 0..3 in every step;
\* a step of a running state writes only the header record of the slot it
\* commits or releases and heap cells that were free or on that slot's own
\* chain, so every other slot's header record, chain cells and reconstructed
\* code are unchanged.
C14_WriteFrame ==
    [][/\ SignaturePresent(mem)
          => \A a \in 0 .. 3 : EEPROM_read(mem', a) = EEPROM_read(mem, a)
       /\ (current_state # "initial" /\ mem' # mem)
          => LET p == CommitPos
             IN /\ \A a \in Changed(mem, mem') :
                       \/ a >= SlotAddr(p) /\ a < SlotAddr(p) + 4
                       \/ /\ a >= HeaderSize
                          /\ CellOf(a) \in FreeCells(mem) \cup ActiveChain(mem, p)
                /\ \A q \in 0 .. 4 :
                       (q # p)
                       => /\ Record(mem', SlotAddr(q)) = Record(mem, SlotAddr(q))
                          /\ \A c \in ActiveChain(mem, q) :
                                 Record(mem', c) = Record(mem, c)
                          /\ lock_read_code(mem', NewLock, q)
                                 = lock_read_code(mem, NewLock, q)]_vars

\* a compartment code committed in SafeSelect lies right behind the admin chain
C14_Witness ==
    /\ current_state = "userUnlocked"
    /\ last_state = "safeSelect"
    /\ select = 0
    /\ EEPROM_read(mem, SlotAddr(0)) = 1
    /\ EEPROM_read(mem, SlotAddr(1)) = 1
    /\ PtrAt(mem, SlotAddr(0) + 2) = HeaderSize
    /\ PtrAt(mem, SlotAddr(1) + 2) = HeaderSize + 4 * EEPROM_read(mem, SlotAddr(0) + 1)
    /\ Cardinality(OccupiedCells(mem))
           = EEPROM_read(mem, SlotAddr(0) + 1) + EEPROM_read(mem, SlotAddr(1) + 1)

\* C15: no step takes one of the while(1) traps: the machine never halts, the
\* selection is a compartment index 0..3 (every letter key 12..15 gives one),
\* every lock's status is 0..2, and whenever the current state is EditCode the
\* previous state is AdminUnlocked or UserUnlocked.
C15_NoHalt ==
    /\ ~halted
    /\ select \in 0 .. 3
    /\ \A key \in 12 .. 15 : ~set_select_halts(key - 12)
    /\ ~set_active_halts(temp_code.active)
    /\ ~set_active_halts(admin_code.active)
    /\ \A j \in 0 .. 3 : ~set_active_halts(safe[j].active)
    /\ (current_state = "editCode")
       => last_state \in {"adminUnlocked", "userUnlocked"}

\* EditCode entered from UserUnlocked on the last compartment, a digit typed
C15_Witness ==
    /\ current_state = "editCode"
    /\ last_state = "userUnlocked"
    /\ select = 3
    /\ temp_code.code_length = 1
    /\ ~halted

\* a code of MINLEN..MAXLEN digits, each 0..9
WellFormed(lk) ==
    /\ lk.code_length >= MINLEN
    /\ lk.code_length <= MAXLEN
    /\ Len(lk.code) = lk.code_length
    /\ \A i \in 1 .. lk.code_length : lk.code[i] \in 0 .. 9

\* C16: the scratch code has 0..50 digits, a scratch code is Complete, now or
\* after the next key, only with at least 5, and every active slot holds 5..50
\* digits, each 0..9, in memory and in the header record and chain of every
\* slot the medium marks active.
C16_Lengths ==
    /\ temp_code.code_length >= 0
    /\ temp_code.code_length <= MAXLEN
    /\ Len(temp_code.code) = temp_code.code_length
    /\ (temp_code.active = 1) => (temp_code.code_length >= MINLEN)
    /\ \A key \in Keys :
           LET r == set_code(temp_code, key).lk
           IN (r.active = 1) => (r.code_length >= MINLEN)
    /\ \A k \in 1 .. 5 :
           (SlotsInMemory[k].active = 1) => WellFormed(SlotsInMemory[k])
    /\ \A pos \in 0 .. 4 :
           (EEPROM_read(mem, SlotAddr(pos)) = 1)
           => WellFormed(lock_read_code(mem, NewLock, pos))

\* the admin code and a six-digit compartment code are stored while a code of
\* MINLEN digits stands in the scratch code
C16_Witness ==
    /\ admin_code.active = 1
    /\ safe[3].active = 1
    /\ safe[3].code_length = MINLEN + 1
    /\ EEPROM_read(mem, SlotAddr(4) + 1) = MINLEN + 1
    /\ temp_code.code_length = MINLEN
    /\ current_state = "safeSelect"

\* the n lowest addresses of a set of cells
LowestN(cells, n) == {a \in cells : Cardinality({b \in cells : b < a}) < n}

\* C17: storing n digits claims exactly the n lowest-addressed free cells, the
\* digits in ascending address order: the chain's addresses increase strictly,
\* its head is the lowest free cell, and no cell that was occupied is claimed or
\* modified.
C17_FirstFit ==
    [][(t.pc = "idle" /\ t'.pc = "stored")
          => LET n == Len(t'.code)
                 ch == ChainOf(mem', t'.pos)
                 free == FreeCells(mem)
             IN /\ Cardinality(free) >= n
                /\ Len(ch) = n
                /\ Range(ch) = LowestN(free, n)
                /\ \A i \in 1 .. (n - 1) : ch[i] < ch[i + 1]
                /\ \A a \in free : ch[1] <= a
                /\ PtrAt(mem', SlotAddr(t'.pos) + 2) = ch[1]
                /\ \A i \in 1 .. n : EEPROM_read(mem', ch[i] + 1) = t'.code[i]
                /\ FreeCells(mem') = free \ Range(ch)
                /\ \A c \in OccupiedCells(mem) : Record(mem', c) = Record(mem, c)]_vars

\* a code just stored into free cells that other chains separate
C17_Witness ==
    /\ t.pc = "stored"
    /\ LET ch == ChainOf(mem, t.pos)
       IN /\ Len(ch) = Len(t.code)
          /\ \E i \in 1 .. (Len(ch) - 1) : ch[i + 1] > ch[i] + 4
          /\ \E c \in FreeCells(mem) : c > ch[Len(ch)]

\* sum of the length bytes of the slots the medium marks active
RECURSIVE ActiveLengths(_, _)
ActiveLengths(m, pos) ==
    IF pos > 4
    THEN 0
    ELSE (IF EEPROM_read(m, SlotAddr(pos)) = 1
          THEN EEPROM_read(m, SlotAddr(pos) + 1)
          ELSE 0) + ActiveLengths(m, pos + 1)

\* C18: every occupied heap cell lies on the chain of some active slot, so the
\* number of occupied cells equals the sum of the lengths of the active slots.
C18_NoOrphans ==
    /\ OccupiedCells(mem) = UNION {ActiveChain(mem, pos) : pos \in 0 .. 4}
    /\ Cardinality(OccupiedCells(mem)) = ActiveLengths(mem, 0)

\* the slots whose header record on the medium has the active flag
ActiveSlots(m) == {pos \in 0 .. 4 : EEPROM_read(m, SlotAddr(pos)) = 1}

\* C19: the chains of two distinct active slots share no cell; every cell on an
\* active slot's chain carries the 0xCC marker and lies at a multiple of 4 from
\* address 24 on; no cell appears twice on one chain. The active slots are those
\* the medium marks active, which a running machine also holds active in memory.
C19_Disjoint ==
    /\ \A p \in ActiveSlots(mem) :
           LET ch == ChainOf(mem, p)
           IN /\ \A i \in 1 .. Len(ch) :
                     /\ ch[i] >= HeaderSize
                     /\ ch[i] % 4 = 0
                     /\ ch[i] \in CellAddrs
                     /\ EEPROM_read(mem, ch[i]) = Occupied
              /\ \A i, j \in 1 .. Len(ch) : (i # j) => (ch[i] # ch[j])
    /\ \A p, q \in ActiveSlots(mem) :
           (p # q) => (ActiveChain(mem, p) \cap ActiveChain(mem, q) = {})
    /\ (current_state # "initial")
       => \A k \in 1 .. 5 :
              (SlotsInMemory[k].active = 1) <=> ((k - 1) \in ActiveSlots(mem))

\* the admin code and the last compartment's code are both stored
C19_Witness ==
    /\ ActiveSlots(mem) = {0, 4}
    /\ Cardinality(ActiveChain(mem, 0)) = MINLEN
    /\ Cardinality(ActiveChain(mem, 4)) = MINLEN + 1
    /\ admin_code.active = 1
    /\ safe[3].active = 1

\* C20: outside Init and AdminLocked the admin code is active; while there is
\* no admin code Cancel in AdminLocked stays in AdminLocked, and AdminLocked is
\* left only by the Confirm that stores the typed code as admin code and
\* unlocks; an active admin code stays active in memory while the machine runs,
\* and its active flag on the medium is never cleared.
C20_AdminFirst ==
    [][/\ (current_state' \notin {"initial", "adminLocked"})
          => admin_code'.active = 1
       /\ (admin_code.active = 0 /\ admin_locked_state(10))
          => /\ current_state' = "adminLocked"
             /\ admin_code'.active = 0
       /\ (/\ current_state = "adminLocked"
           /\ admin_code.active = 0
           /\ current_state' \notin {"adminLocked", "initial"})
          => /\ admin_locked_state(11)
             /\ current_state' = "adminUnlocked"
             /\ admin_code' = [code |-> temp_code.code,
                               code_length |-> temp_code.code_length,
                               active |-> 1]
             /\ lock_read_code(mem', NewLock, 0) = admin_code'
       /\ (admin_code.active = 1 /\ current_state' # "initial")
          => admin_code'.active = 1
       /\ (EEPROM_read(mem, SlotAddr(0)) = 1)
          => (EEPROM_read(mem', SlotAddr(0)) = 1)]_vars

\* the first admin code has just been stored: AdminUnlocked entered from
\* AdminLocked, the admin chain holding every occupied cell
C20_Witness ==
    /\ current_state = "adminUnlocked"
    /\ last_state = "adminLocked"
    /\ ret = << >>
    /\ admin_code.active = 1
    /\ admin_code.code_length = MINLEN + 1
    /\ OccupiedCells(mem) = ActiveChain(mem, 0)
    /\ ActiveSlots(mem) = {0}

\* a code without digits whose status is neither Complete nor Cancelled
Empty(lk) == lk.code_length = 0 /\ lk.active = 0

\* C21: at the end of every step whose current state is UserLocked,
\* AdminUnlocked, UserUnlocked or Lockout, and of every step that changed the
\* current state into AdminLocked, SafeSelect or EditCode, the scratch code is
\* Empty.
C21_ScratchEmpty ==
    [][/\ (current_state' \in {"userLocked", "adminUnlocked",
                               "userUnlocked", "lockout"})
          => Empty(temp_code')
       /\ (current_state' # current_state /\ current_state' \in SetCodeStates)
          => Empty(temp_code')]_vars

\* Lockout entered from SafeSelect: the Confirm of that step compared a scratch
\* code of at least MINLEN digits, which is Empty now
C21_Witness ==
    /\ current_state = "lockout"
    /\ last_state = "safeSelect"
    /\ ret = <<2>>
    /\ Empty(temp_code)

\* C22: the machine is in AdminUnlocked only if, since it last was in
\* UserLocked or AdminLocked, a scratch code matched the admin code or became
\* the first admin code; it is in UserUnlocked, or in EditCode entered from
\* UserUnlocked, only if since it last was in UserLocked it passed through
\* AdminUnlocked, or a scratch code matched or claimed the compartment that is
\* still the selected one.
C22_Authenticated ==
    /\ (current_state = "adminUnlocked") => auth.admin
    /\ (\/ current_state = "userUnlocked"
        \/ current_state = "editCode" /\ last_state = "userUnlocked")
       => \/ auth.via
          \/ auth.user /\ auth.sel = select

\* EditCode entered from UserUnlocked by a user who matched the code of the
\* last compartment and never passed through AdminUnlocked
C22_Witness ==
    /\ current_state = "editCode"
    /\ last_state = "userUnlocked"
    /\ select = 3
    /\ auth.user
    /\ auth.sel = 3
    /\ ~auth.via
    /\ ~auth.admin
    /\ attempt = 1

====
